---- MODULE Spec2Model ----
(***************************************************************************)
(* Conflict-Based Search (CBS) over a space-time A*, as implemented in     *)
(* search/algorithms.py: State, CBSState, CBS and AStar.                   *)
(*                                                                         *)
(* The grid map (Map.successors) is a collaborator of the algorithms that  *)
(* is not part of search/algorithms.py; it is modelled from its stated     *)
(* contract: 4-connected moves of cost 1 on free cells, a successor being  *)
(* dropped when the agent's constraints forbid its cell at its time-step.  *)
(***************************************************************************)
EXTENDS Integers, Sequences, FiniteSets, TLC

(***************************************************************************)
(* Bounds of the model.                                                    *)
(***************************************************************************)
\* The map is MapWidth x MapHeight cells.
MapWidth == 3
MapHeight == 3
\* A* is followed up to this accumulated cost g; a search that pops a node
\* this deep without having met the goal is one that never returns.
Horizon == 10
\* CBS.search is followed for at most this many pops of its open list.
MaxExpansions == 10

\* float('inf'), the cost of an infeasible CBS state.
Inf == 1000000

Cells == (0 .. MapWidth - 1) \X (0 .. MapHeight - 1)

Abs(a) == IF a < 0 THEN 0 - a ELSE a

\* None, for a reference to a State (a list that holds the object, or not).
None == << >>

(***************************************************************************)
(* class State                                                             *)
(***************************************************************************)
\* State.map_width, which Map's constructor sets to the width of the map.
map_width == MapWidth

\* State(x, y): g, cost and parent start as 0, 0, None.
NewState(x, y) == [x |-> x, y |-> y, g |-> 0, cost |-> 0, parent |-> None]

\* the hash of the cell alone, as for a search that has no time-steps
StateHashOfCell(s) == << s.y * map_width + s.x, 0 >>

\* State.__hash__: hash((y * map_width + x, g)); the hashed pair stands for
\* its hash value.
StateHash(s) == << s.y * map_width + s.x, s.g >>

\* State.__eq__
StateEq(s, t) == s.x = t.x /\ s.y = t.y /\ s.g = t.g

\* State.__lt__
StateLt(s, t) == s.cost < t.cost

\* State.is_goal
IsGoal(s, goal) == s.x = goal.x /\ s.y = goal.y

\* State.get_heuristic
GetHeuristic(s, target) == Abs(s.x - target.x) + Abs(s.y - target.y)

(***************************************************************************)
(* heapq, on a list held as a sequence (list index i is sequence index     *)
(* i + 1).  The items are State objects (AStar.OPEN) or the tuples         *)
(* (cost, state) of CBS.search's open_list, held as records                *)
(* [cost, state, scost]: state is the CBSState's identity and scost its    *)
(* _cost, which no code changes once the tuple is pushed.                  *)
(***************************************************************************)
\* item < other.  Tuples compare their first components, and when those are
\* equal the CBSState objects (never the same object) by CBSState.__lt__.
ItemLt(a, b) ==
    IF "state" \in DOMAIN a
    THEN a.cost < b.cost \/ (a.cost = b.cost /\ a.state # b.state /\ a.scost < b.scost)
    ELSE StateLt(a, b)

\* heapq._siftdown(heap, startpos, pos), newitem being heap[pos]
RECURSIVE SiftDown(_, _, _, _)
SiftDown(heap, startpos, pos, newitem) ==
    IF pos > startpos /\ ItemLt(newitem, heap[((pos - 1) \div 2) + 1])
    THEN SiftDown([heap EXCEPT ![pos + 1] = heap[((pos - 1) \div 2) + 1]],
                  startpos, (pos - 1) \div 2, newitem)
    ELSE [heap EXCEPT ![pos + 1] = newitem]

\* heapq._siftup(heap, pos), newitem being heap[pos]
RECURSIVE SiftUp(_, _, _)
SiftUp(heap, pos, newitem) ==
    LET endpos == Len(heap)
        left == 2 * pos + 1
        right == left + 1
        childpos == IF right < endpos /\ ~ItemLt(heap[left + 1], heap[right + 1])
                    THEN right ELSE left
    IN  IF left < endpos
        THEN SiftUp([heap EXCEPT ![pos + 1] = heap[childpos + 1]], childpos, newitem)
        ELSE SiftDown(heap, 0, pos, newitem)

\* heapq.heappush(heap, item)
HeapPush(heap, item) == SiftDown(Append(heap, item), 0, Len(heap), item)

\* heapq.heappop(heap): the item returned, and the list it leaves.
HeapPopItem(heap) == heap[1]

HeapPopRest(heap) ==
    LET lastelt == heap[Len(heap)]
        rest == SubSeq(heap, 1, Len(heap) - 1)
    IN  IF Len(rest) > 0 THEN SiftUp(rest, 0, lastelt) ELSE rest

(***************************************************************************)
(* The map.  walls is the set of blocked cells, order the sequence in      *)
(* which the four moves are tried (it only breaks ties), constraints one   *)
(* agent's constraints: a dictionary from a cell to the set of time-steps  *)
(* at which that agent may not be there.                                   *)
(***************************************************************************)
IsValidPair(walls, c) == c \in Cells /\ c \notin walls

Forbidden(constraints, c, t) == c \in DOMAIN constraints /\ t \in constraints[c]

RECURSIVE SuccessorsFrom(_, _, _, _, _)
SuccessorsFrom(walls, order, node, constraints, i) ==
    IF i > Len(order) THEN << >>
    ELSE LET c == << node.x + order[i][1], node.y + order[i][2] >>
             child == [NewState(c[1], c[2]) EXCEPT !.g = node.g + 1]
             rest == SuccessorsFrom(walls, order, node, constraints, i + 1)
         IN  IF IsValidPair(walls, c) /\ ~Forbidden(constraints, c, node.g + 1)
             THEN << child >> \o rest
             ELSE rest

\* Map.successors(node, constraints)
MapSuccessors(walls, order, node, constraints) ==
    SuccessorsFrom(walls, order, node, constraints, 1)

(***************************************************************************)
(* class AStar                                                             *)
(***************************************************************************)
\* AStar.compute_cost: the f-value, set on the state.
AStarComputeCost(s, goal) == [s EXCEPT !.cost = s.g + GetHeuristic(s, goal)]

\* AStar._recover_path: the nodes from the one without a parent to node.
\* A path keeps each State's x, y and g, all that is read of it afterwards.
RECURSIVE RecoverPath(_)
RecoverPath(node) ==
    IF node.parent # None
    THEN Append(RecoverPath(node.parent[1]), [x |-> node.x, y |-> node.y, g |-> node.g])
    ELSE << [x |-> node.x, y |-> node.y, g |-> node.g] >>

\* The for loop of AStar.search over the children of node, from the i-th:
\* the OPEN list and the CLOSED dictionary it leaves.
RECURSIVE ForChildren(_, _, _, _, _, _)
ForChildren(open, closed, children, i, node, goal) ==
    IF i > Len(children) THEN [open |-> open, closed |-> closed]
    ELSE LET hash_value == StateHash(children[i])
             child == [AStarComputeCost(children[i], goal) EXCEPT !.parent = << node >>]
             fresh == hash_value \notin DOMAIN closed
             open1 == IF fresh THEN HeapPush(open, child) ELSE open
             closed1 == IF fresh THEN (hash_value :> child) @@ closed ELSE closed
             better == closed1[hash_value].g > child.g
             open2 == IF better THEN HeapPush(open1, child) ELSE open1
             closed2 == IF better THEN (hash_value :> child) @@ closed1 ELSE closed1
         IN  ForChildren(open2, closed2, children, i + 1, node, goal)

\* The while loop of AStar.search.  returns is FALSE for a search that pops a
\* node Horizon deep: the loop of the code goes on from there.
RECURSIVE WhileOpen(_, _, _, _, _, _)
WhileOpen(open, closed, walls, order, goal, constraints) ==
    IF Len(open) = 0 THEN [returns |-> TRUE, cost |-> 0 - 1, path |-> None]
    ELSE LET node == HeapPopItem(open)
             rest == HeapPopRest(open)
         IN  IF IsGoal(node, goal)
             THEN [returns |-> TRUE, cost |-> node.g, path |-> RecoverPath(node)]
             ELSE IF node.g >= Horizon
             THEN [returns |-> FALSE, cost |-> 0 - 1, path |-> None]
             ELSE LET children == MapSuccessors(walls, order, node, constraints)
                      after == ForChildren(rest, closed, children, 1, node, goal)
                  IN  WhileOpen(after.open, after.closed, walls, order, goal, constraints)

\* AStar.search(start, goal, constraints) on the map (walls, order).  OPEN and
\* CLOSED are cleared first, so nothing of an earlier search is left in them.
AStarSearch(walls, order, start, goal, constraints) ==
    LET start0 == AStarComputeCost(start, goal)
    IN  WhileOpen(HeapPush(<< >>, start0), (StateHash(start0) :> start0),
                  walls, order, goal, constraints)

(***************************************************************************)
(* The state of one run of CBS().search(start).                            *)
(***************************************************************************)
VARIABLES
    walls,      \* the blocked cells of the map
    order,      \* the order in which the map tries the four moves
    starts,     \* agent -> start cell
    goals,      \* agent -> goal cell
    dicts,      \* the heap of per-agent constraint dictionaries: identity -> value
    nodes,      \* the CBSState objects created so far: identity -> fields
    open_list,  \* CBS.search's open_list
    pc,         \* "start", "loop", "done" (search returned), "hung" (an A* never returns)
    result,     \* what search returned
    popped      \* the number of heappop calls of CBS.search so far

vars == << walls, order, starts, goals, dicts, nodes, open_list, pc, result, popped >>

\* range(0, self._k)
Agents == DOMAIN starts

\* {}
EmptyDict == << >>

(***************************************************************************)
(* class CBSState.  A node's fields: constraints (agent -> identity of     *)
(* that agent's dictionary in dicts), paths, cost, and parent, the node    *)
(* whose successors() created it (0 for the root), which the code does not *)
(* keep and nothing below reads but the properties.                        *)
(***************************************************************************)
\* The value of node n's constraints: agent -> (cell -> set of time-steps).
ConstraintsOf(store, node) == [i \in DOMAIN node.constraints |-> store[node.constraints[i]]]

\* The for loop of CBSState.compute_cost from agent i on.  returns is FALSE
\* when a search of the loop never returns.
RECURSIVE ComputeCostFrom(_, _, _, _, _, _, _, _)
ComputeCostFrom(w, o, st, gl, constraints, i, total_cost, updated_paths) ==
    IF i \notin DOMAIN st
    THEN [returns |-> TRUE, cost |-> total_cost, paths |-> updated_paths, stored |-> TRUE]
    ELSE LET found == AStarSearch(w, o, NewState(st[i][1], st[i][2]),
                                  NewState(gl[i][1], gl[i][2]), constraints[i])
         IN  IF ~found.returns
             THEN [returns |-> FALSE, cost |-> 0, paths |-> EmptyDict, stored |-> FALSE]
             ELSE IF found.path = None
             THEN [returns |-> TRUE, cost |-> Inf, paths |-> EmptyDict, stored |-> FALSE]
             ELSE ComputeCostFrom(w, o, st, gl, constraints, i + 1,
                                  total_cost + found.cost,
                                  (i :> found.path) @@ updated_paths)

\* CBSState.compute_cost on a state with the given constraints: what it
\* returns, and (stored) whether it replaced self._paths.
ComputeCost(w, o, st, gl, constraints) ==
    ComputeCostFrom(w, o, st, gl, constraints, 0, 0, EmptyDict)

\* node after compute_cost returned r
Costed(node, r) ==
    [node EXCEPT !.cost = r.cost, !.paths = IF r.stored THEN r.paths ELSE @]

MaxLen(paths) ==
    CHOOSE m \in { Len(paths[a]) : a \in DOMAIN paths } :
        \A a \in DOMAIN paths : Len(paths[a]) <= m

\* occupied_pos[(time, position)]: the agent stored under a key equal to it
\* (equal time-steps, positions equal by State.__eq__), or -1 when none is.
Occupant(occupied_pos, time, position) ==
    LET hit == { e \in occupied_pos :
                   e.time = time /\ StateHash(e.position) = StateHash(position)
                                 /\ StateEq(e.position, position) }
    IN  IF hit = {} THEN 0 - 1 ELSE (CHOOSE e \in hit : TRUE).agent

\* The loops of CBSState.is_solution from (agent, time) on.
RECURSIVE ScanFrom(_, _, _, _, _)
ScanFrom(paths, max_steps, occupied_pos, agent, time) ==
    IF agent \notin DOMAIN paths
    THEN [ok |-> TRUE, position |-> None, time |-> 0 - 1, agent_a |-> 0 - 1, agent_b |-> 0 - 1]
    ELSE IF time >= max_steps
    THEN ScanFrom(paths, max_steps, occupied_pos, agent + 1, 0)
    ELSE IF time < Len(paths[agent])
    THEN LET position == paths[agent][time + 1]
             other == Occupant(occupied_pos, time, position)
         IN  IF other # 0 - 1
             THEN [ok |-> FALSE, position |-> << position >>, time |-> time,
                   agent_a |-> other, agent_b |-> agent]
             ELSE ScanFrom(paths, max_steps,
                           occupied_pos \cup { [time |-> time, position |-> position,
                                                agent |-> agent] },
                           agent, time + 1)
    ELSE ScanFrom(paths, max_steps, occupied_pos, agent, time + 1)

\* is_solution with its time loop one step short: range(max_steps - 1)
IsSolutionShortRange(paths) == ScanFrom(paths, MaxLen(paths) - 1, {}, 0, 0)

\* CBSState.is_solution
IsSolution(paths) == ScanFrom(paths, MaxLen(paths), {}, 0, 0)

\* node._constraints = self._constraints: no copy, the same dictionaries
AliasCopy(store, constraints) == [store |-> store, constraints |-> constraints]

\* node._constraints = {i: {} for each agent}: the parent's constraints lost
EmptyCopy(store, constraints) ==
    [store |-> store \o [j \in 1 .. Cardinality(DOMAIN constraints) |-> EmptyDict],
     constraints |-> [i \in DOMAIN constraints |-> Len(store) + i + 1]]

\* copy.deepcopy(self._constraints): the dictionaries' heap with the copies
\* in it, and the copy's agent -> identity.
DeepCopy(store, constraints) ==
    [store |-> store \o [j \in 1 .. Cardinality(DOMAIN constraints) |-> store[constraints[j - 1]]],
     constraints |-> [i \in DOMAIN constraints |-> Len(store) + i + 1]]

\* set_constraint that forbids the cell one time-step late
SetConstraintLate(store, constraints, conflict_state, conflict_time, agent) ==
    LET c == << conflict_state.x, conflict_state.y >>
        d == store[constraints[agent]]
        d1 == IF c \notin DOMAIN d THEN (c :> {}) @@ d ELSE d
    IN  [store EXCEPT ![constraints[agent]] = [d1 EXCEPT ![c] = @ \cup { conflict_time + 1 }]]

\* CBSState.set_constraint on a state whose _constraints is constraints: the
\* dictionaries' heap it leaves.
SetConstraint(store, constraints, conflict_state, conflict_time, agent) ==
    LET c == << conflict_state.x, conflict_state.y >>
        d == store[constraints[agent]]
        d1 == IF c \notin DOMAIN d THEN (c :> {}) @@ d ELSE d
    IN  [store EXCEPT ![constraints[agent]] = [d1 EXCEPT ![c] = @ \cup { conflict_time }]]

\* CBSState(map, starts, goals) with its _constraints set to constraints
NewNode(constraints, parent) ==
    [constraints |-> constraints, paths |-> EmptyDict, cost |-> 0, parent |-> parent]

\* CBSState.successors on node (identity id), which is not a solution and
\* whose conflict is_solution reported as sol: the two children, and the
\* dictionaries' heap once both are built.
Successors(store, node, id, sol) ==
    LET copy_a == DeepCopy(store, node.constraints)
        store_a == SetConstraint(copy_a.store, copy_a.constraints,
                                 sol.position[1], sol.time, sol.agent_a)
        copy_b == DeepCopy(store_a, node.constraints)
        store_b == SetConstraint(copy_b.store, copy_b.constraints,
                                 sol.position[1], sol.time, sol.agent_b)
    IN  [store |-> store_b,
         node_a |-> NewNode(copy_a.constraints, id),
         node_b |-> NewNode(copy_b.constraints, id)]

(***************************************************************************)
(* The inputs: a map out of a few layouts, and one or two agents with      *)
(* their start and goal on free cells among the corners of the map and two *)
(* cells next to corner (0, 0).                                            *)
(***************************************************************************)
MaxAgents == 2

OpenMap == {}
\* a single row of free cells
Corridor == { c \in Cells : c[2] >= 1 }
\* a wall that cuts the map in two
Split == { c \in Cells : c[1] = 1 }
\* cell (0, 0) walled in
Pocket == { << 1, 0 >>, << 0, 1 >> }
\* one obstacle in the middle
Pillar == { << 1, 1 >> }

Stations ==
    { << 0, 0 >>, << MapWidth - 1, 0 >>, << 0, MapHeight - 1 >>,
      << MapWidth - 1, MapHeight - 1 >>, << 1, 0 >>, << 1, 1 >> } \cap Cells

WallChoices == { OpenMap, Corridor, Split, Pocket, Pillar }

MoveOrders == { << << 1, 0 >>, << 0 - 1, 0 >>, << 0, 1 >>, << 0, 0 - 1 >> >> }

NoResult == [returned |-> FALSE, none |-> TRUE, paths |-> EmptyDict, cost |-> 0]

Init ==
    /\ walls \in WallChoices
    /\ order \in MoveOrders
    /\ \E k \in 1 .. MaxAgents :
          /\ starts \in [0 .. k - 1 -> Stations \ walls]
          /\ goals \in [0 .. k - 1 -> Stations \ walls]
          /\ dicts = [j \in 1 .. k |-> EmptyDict]
          /\ nodes = << NewNode([i \in 0 .. k - 1 |-> i + 1], 0) >>
    /\ open_list = << >>
    /\ pc = "start"
    /\ result = NoResult
    /\ popped = 0

(***************************************************************************)
(* class CBS: search(start), start being node 1.                           *)
(***************************************************************************)
\* The tuple (cost, state) pushed on open_list.
Entry(cost, id) == [cost |-> cost, state |-> id, scost |-> cost]

\* Lines 232-238: the cost of the start state; None when it is infeasible.
SearchStart ==
    /\ pc = "start"
    /\ LET r == ComputeCost(walls, order, starts, goals, ConstraintsOf(dicts, nodes[1]))
       IN  IF ~r.returns
           THEN /\ pc' = "hung"
                /\ UNCHANGED << nodes, open_list, result >>
           ELSE /\ nodes' = [nodes EXCEPT ![1] = Costed(@, r)]
                /\ IF r.cost = Inf
                   THEN /\ pc' = "done"
                        /\ result' = [returned |-> TRUE, none |-> TRUE,
                                      paths |-> EmptyDict, cost |-> r.cost]
                        /\ UNCHANGED open_list
                   ELSE /\ pc' = "loop"
                        /\ open_list' = << Entry(r.cost, 1) >>
                        /\ UNCHANGED result
    /\ UNCHANGED << walls, order, starts, goals, dicts, popped >>

\* Lines 240-244: the popped state is a solution.
SearchReturn ==
    /\ pc = "loop"
    /\ Len(open_list) > 0
    /\ LET state == HeapPopItem(open_list).state
       IN  /\ IsSolution(nodes[state].paths).ok
           /\ result' = [returned |-> TRUE, none |-> FALSE,
                         paths |-> nodes[state].paths, cost |-> nodes[state].cost]
    /\ open_list' = HeapPopRest(open_list)
    /\ popped' = popped + 1
    /\ pc' = "done"
    /\ UNCHANGED << walls, order, starts, goals, dicts, nodes >>

\* the child put at the front of the list, no heap kept
PushedInFront(list, r, id) == IF r.cost < Inf THEN << Entry(r.cost, id) >> \o list ELSE list

\* open_list after the push of child id, whose compute_cost returned r
Pushed(list, r, id) == IF r.cost < Inf THEN HeapPush(list, Entry(r.cost, id)) ELSE list

\* Lines 240-250: the popped state is not a solution; its two children are
\* built, costed in turn and pushed when feasible.
SearchExpand ==
    /\ pc = "loop"
    /\ Len(open_list) > 0
    /\ popped < MaxExpansions
    /\ LET state == HeapPopItem(open_list).state
           rest == HeapPopRest(open_list)
           sol == IsSolution(nodes[state].paths)
       IN  /\ ~sol.ok
           /\ LET succ == Successors(dicts, nodes[state], state, sol)
                  id_a == Len(nodes) + 1
                  id_b == Len(nodes) + 2
                  r_a == ComputeCost(walls, order, starts, goals,
                                     ConstraintsOf(succ.store, succ.node_a))
                  r_b == ComputeCost(walls, order, starts, goals,
                                     ConstraintsOf(succ.store, succ.node_b))
              IN  /\ dicts' = succ.store
                  /\ IF ~r_a.returns
                     THEN /\ nodes' = nodes \o << succ.node_a, succ.node_b >>
                          /\ open_list' = rest
                          /\ pc' = "hung"
                     ELSE IF ~r_b.returns
                     THEN /\ nodes' = nodes \o << Costed(succ.node_a, r_a), succ.node_b >>
                          /\ open_list' = Pushed(rest, r_a, id_a)
                          /\ pc' = "hung"
                     ELSE /\ nodes' = nodes \o << Costed(succ.node_a, r_a),
                                                  Costed(succ.node_b, r_b) >>
                          /\ open_list' = Pushed(Pushed(rest, r_a, id_a), r_b, id_b)
                          /\ pc' = "loop"
    /\ popped' = popped + 1
    /\ UNCHANGED << walls, order, starts, goals, result >>

\* Line 252: the open list is empty.
SearchExhausted ==
    /\ pc = "loop"
    /\ Len(open_list) = 0
    /\ pc' = "done"
    /\ result' = [returned |-> TRUE, none |-> TRUE, paths |-> EmptyDict, cost |-> Inf]
    /\ UNCHANGED << walls, order, starts, goals, dicts, nodes, open_list, popped >>

Next == SearchStart \/ SearchReturn \/ SearchExpand \/ SearchExhausted

Spec == Init /\ [][Next]_vars

(***************************************************************************)
(* One call of AStar().search(start, goal, constraints) on its own: agent  *)
(* 0's start and goal, and as constraints dicts[1], a set of time-steps    *)
(* from 1 to MaxTime for each of the two cells next to corner (0, 0).      *)
(***************************************************************************)
MaxTime == 3

ConstrainedCells == { << 1, 0 >>, << 0, 1 >> } \cap Cells

\* The dictionary that holds, for each cell of times with a time-step, its set.
AsDict(times) == [c \in { d \in DOMAIN times : times[d] # {} } |-> times[c]]

InitAStar ==
    /\ walls \in WallChoices
    /\ order \in MoveOrders
    /\ starts \in [{ 0 } -> Stations \ walls]
    /\ goals \in [{ 0 } -> Stations \ walls]
    /\ \E times \in [ConstrainedCells -> SUBSET (1 .. MaxTime)] : dicts = << AsDict(times) >>
    /\ nodes = << >>
    /\ open_list = << >>
    /\ pc = "astar"
    /\ result = NoResult
    /\ popped = 0

\* The call, and what it returned: result.none for a path of None.
AStarCall ==
    /\ pc = "astar"
    /\ LET r == AStarSearch(walls, order, NewState(starts[0][1], starts[0][2]),
                            NewState(goals[0][1], goals[0][2]), dicts[1])
       IN  /\ pc' = IF r.returns THEN "done" ELSE "hung"
           /\ result' = [returned |-> r.returns, none |-> r.path = None,
                         paths |-> IF r.path = None THEN EmptyDict ELSE (0 :> r.path),
                         cost |-> r.cost]
    /\ UNCHANGED << walls, order, starts, goals, dicts, nodes, open_list, popped >>

NextAStar == AStarCall

SpecAStar == InitAStar /\ [][NextAStar]_vars

(***************************************************************************)
(* What the properties speak of.                                           *)
(***************************************************************************)
\* The (agent, cell, time) forbiddances of a node.
Triples(store, node) ==
    UNION { UNION { { << i, c, t >> : t \in store[node.constraints[i]][c] } :
                    c \in DOMAIN store[node.constraints[i]] } :
            i \in DOMAIN node.constraints }

CellOf(position) == << position.x, position.y >>

\* Agents a and b are both on one cell at path index t of paths.
Collide(paths, a, b, t) ==
    /\ a # b
    /\ t < Len(paths[a])
    /\ t < Len(paths[b])
    /\ CellOf(paths[a][t + 1]) = CellOf(paths[b][t + 1])

HasConflict(paths) ==
    \E a \in DOMAIN paths, b \in DOMAIN paths :
        \E t \in 0 .. Len(paths[a]) - 1 : Collide(paths, a, b, t)

\* The nodes compute_cost found feasible: those with cached paths.
Feasible(n) == nodes[n].paths # EmptyDict

Returned == pc = "done"

\* The free cells next to cell c.
Neighbours(c) ==
    { d \in Cells \ walls : Abs(d[1] - c[1]) + Abs(d[2] - c[2]) = 1 }

\* The cells that moves over free cells reach from the cells of seen.
RECURSIVE Reach(_)
Reach(seen) ==
    LET more == seen \cup UNION { Neighbours(c) : c \in seen }
    IN  IF more = seen THEN seen ELSE Reach(more)

Connected(c, d) == d \in Reach({ c })

(***************************************************************************)
(* The joint solutions of the instance, one time-step after the other.  At *)
(* a time-step an agent is "on" a cell and moves on, or its path "ends" on *)
(* the cell, its goal, or it is "gone", its path having ended before.  A   *)
(* joint state holds every agent's place and the sum of the costs of the   *)
(* paths that have ended.  Two agents that are not gone may not be on one  *)
(* cell.                                                                   *)
(***************************************************************************)
Gone == [c |-> << >>, s |-> "gone"]

\* What agent i may be at the next time-step.
Steps(place, i) ==
    IF place.s # "on" THEN { Gone }
    ELSE { [c |-> d, s |-> "on"] : d \in Neighbours(place.c) }
         \cup { [c |-> d, s |-> "end"] : d \in Neighbours(place.c) \cap { goals[i] } }

\* The least cost the path of agent i can still have, at time-step t.
AtLeast(place, i, t) ==
    IF place.s = "gone" THEN 0
    ELSE IF place.s = "end" THEN t
    ELSE t + Abs(place.c[1] - goals[i][1]) + Abs(place.c[2] - goals[i][2])
           + (IF place.c = goals[i] THEN 2 ELSE 0)

RECURSIVE SumOver(_, _, _)
SumOver(places, t, i) ==
    IF i \notin DOMAIN places THEN 0
    ELSE AtLeast(places[i], i, t) + SumOver(places, t, i + 1)

NoCollision(places) ==
    \A a \in DOMAIN places, b \in DOMAIN places :
        a # b /\ places[a].s # "gone" /\ places[b].s # "gone" => places[a].c # places[b].c

\* The cost, already in j.sum, of the paths that end at time-step t.
EndedNow(j, t) == t * Cardinality({ i \in DOMAIN j.places : j.places[i].s = "end" })

\* Joint state j at time-step t can still become a joint solution that
\* costs less than bound.
Viable(j, t, bound) ==
    NoCollision(j.places) /\ j.sum + SumOver(j.places, t, 0) - EndedNow(j, t) < bound

AllEnded(j) == \A i \in DOMAIN j.places : j.places[i].s # "on"

\* The joint states at time-step t + 1 that follow j.
After(j, t) ==
    { [places |-> p,
       sum |-> j.sum + (t + 1) * Cardinality({ i \in DOMAIN p : p[i].s = "end" })] :
      p \in { q \in [DOMAIN j.places -> UNION { Steps(j.places[i], i) : i \in DOMAIN j.places }] :
                \A i \in DOMAIN q : q[i] \in Steps(j.places[i], i) } }

\* Some joint solution that costs less than bound follows a joint state of
\* layer, the joint states at time-step t.
RECURSIVE CheaperFrom(_, _, _)
CheaperFrom(layer, t, bound) ==
    LET viable == { j \in layer : Viable(j, t, bound) }
    IN  IF viable = {} THEN FALSE
        ELSE IF \E j \in viable : AllEnded(j) THEN TRUE
        ELSE CheaperFrom(UNION { After(j, t) : j \in viable }, t + 1, bound)

\* The joint states at time-step 0.
AtStart ==
    { [places |-> p, sum |-> 0] :
      p \in { q \in [Agents -> { [c |-> starts[i], s |-> "on"] : i \in Agents }
                                 \cup { [c |-> starts[i], s |-> "end"] : i \in Agents }] :
                \A i \in Agents :
                    /\ q[i].c = starts[i]
                    /\ q[i].s = "end" => starts[i] = goals[i] } }

\* The instance has a joint solution without vertex conflicts that costs
\* less than bound.
JointCheaperThan(bound) ==
    /\ \A i \in Agents : Connected(starts[i], goals[i])
    /\ CheaperFrom(AtStart, 0, bound)

\* The instance has a joint solution (every path shorter than Horizon).
Solvable == JointCheaperThan(Cardinality(Agents) * Horizon)

\* search has not ended and its next step is there to take.
CanGoOn ==
    \/ pc = "start"
    \/ /\ pc = "loop"
       /\ Len(open_list) > 0
       /\ \/ popped < MaxExpansions
          \/ IsSolution(nodes[HeapPopItem(open_list).state].paths).ok

\* sum(len(path) - 1) over the agents
RECURSIVE SumOfCosts(_, _)
SumOfCosts(paths, i) ==
    IF i \notin DOMAIN paths THEN 0
    ELSE Len(paths[i]) - 1 + SumOfCosts(paths, i + 1)

(***************************************************************************)
(* C1: whenever search returns paths, there is exactly one path for each   *)
(* agent, from the agent's start to its goal, and no two agents are on one *)
(* cell at one path index; whenever it does not, it returns (None, inf).   *)
(***************************************************************************)
C1_AllOrNothing ==
    Returned =>
        IF result.none
        THEN result.cost = Inf /\ result.paths = EmptyDict
        ELSE /\ DOMAIN result.paths = Agents
             /\ \A i \in Agents :
                   /\ Len(result.paths[i]) >= 1
                   /\ CellOf(result.paths[i][1]) = starts[i]
                   /\ CellOf(result.paths[i][Len(result.paths[i])]) = goals[i]
             /\ ~HasConflict(result.paths)

\* search returned the paths of a node other than the root: a conflict was
\* branched on before the solution was found.
C1_Witness ==
    /\ Returned /\ ~result.none /\ popped >= 2
    /\ Cardinality(Agents) = 2

\* search returned None after it had expanded a node.
C1_WitnessNone == Returned /\ result.none /\ popped >= 1

(***************************************************************************)
(* C5: the cost of every child that successors() produced and compute_cost *)
(* costed, infinite for an infeasible child, is at least its parent's.     *)
(***************************************************************************)
C5_ChildCostAtLeastParent ==
    pc # "hung" =>
        \A n \in 1 .. Len(nodes) :
            nodes[n].parent # 0 => nodes[n].cost >= nodes[nodes[n].parent].cost

\* A child costs strictly more than its parent, and another is infeasible.
C5_Witness ==
    /\ pc # "hung"
    /\ \E n \in 1 .. Len(nodes) :
          /\ nodes[n].parent # 0
          /\ nodes[n].cost > nodes[nodes[n].parent].cost
          /\ nodes[n].cost < Inf
    /\ \E n \in 1 .. Len(nodes) : nodes[n].parent # 0 /\ nodes[n].cost = Inf

(***************************************************************************)
(* C6: each child's constraints are its parent's plus exactly one          *)
(* (agent, cell, time) forbiddance the parent did not have.                *)
(***************************************************************************)
C6_OneNewConstraint ==
    \A n \in 1 .. Len(nodes) :
        nodes[n].parent # 0 =>
            \E tr \in Triples(dicts, nodes[n]) :
                /\ tr \notin Triples(dicts, nodes[nodes[n].parent])
                /\ Triples(dicts, nodes[n]) = Triples(dicts, nodes[nodes[n].parent]) \cup { tr }

C9_SuccessorsFrame ==
    [][Len(nodes') > Len(nodes) =>
          /\ \A n \in 1 .. Len(nodes) :
                /\ nodes'[n] = nodes[n]
                /\ ConstraintsOf(dicts', nodes'[n]) = ConstraintsOf(dicts, nodes[n])
          /\ LET a == nodes'[Len(nodes) + 1]
                 b == nodes'[Len(nodes) + 2]
             IN  Triples(dicts', a) \cap Triples(dicts', b)
                    = Triples(dicts, nodes[a.parent])]_vars

\* A node that already has constraints was expanded, and its children were
\* given a constraint at a later time-step on another cell.
C9_Witness ==
    \E n \in 1 .. Len(nodes) :
        /\ nodes[n].parent # 0
        /\ nodes[nodes[n].parent].parent # 0
        /\ \E tr \in Triples(dicts, nodes[n]), ts \in Triples(dicts, nodes[n]) :
              tr[2] # ts[2] /\ tr[3] >= 1 /\ ts[3] >= 1

(***************************************************************************)
(* C2: the cost search returns with a solution is the sum of the costs of  *)
(* the returned paths, and no joint solution of the instance (one path for *)
(* each agent over free neighbouring cells, no two agents on one cell at   *)
(* one time-step, an agent gone once its path has ended) costs less.       *)
(***************************************************************************)
C2_OptimalSumOfCosts ==
    Returned /\ ~result.none =>
        /\ result.cost = SumOfCosts(result.paths, 0)
        /\ JointCheaperThan(result.cost + 1)
        /\ ~JointCheaperThan(result.cost)

\* A solution that costs more than the root's paths was returned: the
\* shortest paths of the agents collide.
C2_Witness ==
    /\ Returned /\ ~result.none
    /\ result.cost > nodes[1].cost
    /\ JointCheaperThan(result.cost + 1)

(***************************************************************************)
(* C3: on the open 3x3 grid, agent 0 going from (0,0) to (2,0) and agent 1 *)
(* from (2,0) to (0,0).                                                    *)
(***************************************************************************)
IsExample ==
    /\ MapWidth = 3 /\ MapHeight = 3 /\ walls = {}
    /\ Agents = { 0, 1 }
    /\ starts[0] = << 0, 0 >> /\ goals[0] = << 2, 0 >>
    /\ starts[1] = << 2, 0 >> /\ goals[1] = << 0, 0 >>

\* The claim as stated: two paths of 3 cells, cost 2 each, that share no
\* (cell, time) pair, and a total cost of 4.
C3_AsStated ==
    IsExample /\ Returned =>
        /\ ~result.none
        /\ Len(result.paths[0]) = 3 /\ Len(result.paths[1]) = 3
        /\ ~HasConflict(result.paths)
        /\ result.cost = 4

\* C3 as amended: search returns two paths that share no (cell, time) pair,
\* one of 3 cells (cost 2) and one of 5 cells (cost 4), and a total cost of
\* 6; both paths of 3 cells pass (1,0) at time-step 1.
C3_Example ==
    /\ IsExample => Returned \/ CanGoOn
    /\ IsExample /\ pc # "start" => nodes[1].cost = 4 /\ ~IsSolution(nodes[1].paths).ok
    /\ IsExample /\ Returned =>
          /\ ~result.none
          /\ { Len(result.paths[0]), Len(result.paths[1]) } = { 3, 5 }
          /\ ~HasConflict(result.paths)
          /\ result.cost = 6

C3_Witness == IsExample /\ Returned /\ ~result.none

(***************************************************************************)
(* C4: when the goal of some agent cannot be reached from its start on the *)
(* map, the search for its path returns (-1, None), the root's cost is     *)
(* infinite and search returns (None, inf) with no node popped or built.   *)
(***************************************************************************)
SomeGoalCutOff == \E i \in Agents : ~Connected(starts[i], goals[i])

C4_CutOffReturnsNone ==
    SomeGoalCutOff /\ pc # "start" =>
        /\ Returned /\ result.none /\ result.cost = Inf
        /\ nodes[1].cost = Inf
        /\ popped = 0 /\ Len(nodes) = 1

(***************************************************************************)
(* C10: on an instance that has a joint solution without vertex conflicts, *)
(* search ends, and returns paths.  Every step of search pops a node or    *)
(* leaves the start, so it ends once no step is left: the property is that *)
(* on such an instance search is never in an A* that does not return, has  *)
(* never returned None, and, until it has returned paths, has a node to    *)
(* pop and fewer than MaxExpansions pops behind it (or a solution on top). *)
(***************************************************************************)
C10_SolvableReturnsPaths ==
    \/ Returned /\ ~result.none
    \/ CanGoOn
    \/ ~Solvable

\* search returned paths after it had popped four nodes or more.
C10_Witness == Returned /\ ~result.none /\ popped >= 4 /\ Solvable

(***************************************************************************)
(* C7: when a path from start to goal exists under the constraints, the    *)
(* search returns one of least cost, the cell at index t being the cell at *)
(* time-step t; on a map without obstacles and with no constraints the     *)
(* cost is the Manhattan distance from start to goal.                      *)
(***************************************************************************)
\* The cells an agent can be on at time-step t + 1, having been on one of
\* cells at time-step t, under the constraints.
Onward(cells, constraints, t) ==
    { d \in UNION { Neighbours(c) : c \in cells } : ~Forbidden(constraints, d, t + 1) }

\* The least time-step from t on at which an agent on one of cells at
\* time-step t can be on goal; -1 when there is none up to Horizon.
RECURSIVE Earliest(_, _, _, _)
Earliest(cells, goal, constraints, t) ==
    IF goal \in cells THEN t
    ELSE IF cells = {} \/ t >= Horizon THEN 0 - 1
    ELSE Earliest(Onward(cells, constraints, t), goal, constraints, t + 1)

\* path is a path from start to goal over free neighbouring cells that the
\* constraints allow, its cell at index t carrying g = t.
IsPath(path, start, goal, constraints) ==
    /\ Len(path) >= 1
    /\ CellOf(path[1]) = start
    /\ CellOf(path[Len(path)]) = goal
    /\ \A t \in 0 .. Len(path) - 1 : path[t + 1].g = t
    /\ \A t \in 1 .. Len(path) - 1 :
          /\ CellOf(path[t + 1]) \in Neighbours(CellOf(path[t]))
          /\ ~Forbidden(constraints, CellOf(path[t + 1]), t)

C7_LeastCostPath ==
    pc # "astar" /\ Earliest({ starts[0] }, goals[0], dicts[1], 0) >= 0 =>
        /\ pc = "done" /\ ~result.none
        /\ IsPath(result.paths[0], starts[0], goals[0], dicts[1])
        /\ result.cost = Len(result.paths[0]) - 1
        /\ result.cost = Earliest({ starts[0] }, goals[0], dicts[1], 0)
        /\ walls = {} /\ dicts[1] = EmptyDict =>
              result.cost = Abs(starts[0][1] - goals[0][1]) + Abs(starts[0][2] - goals[0][2])

\* A path was returned that the constraints make longer than the Manhattan
\* distance by four steps or more.
C7_Witness ==
    /\ pc = "done" /\ ~result.none
    /\ result.cost >= 4 + Abs(starts[0][1] - goals[0][1]) + Abs(starts[0][2] - goals[0][2])
    /\ dicts[1] # EmptyDict

\* A path was returned on a map without obstacles, with no constraints.
C7_WitnessOpen ==
    pc = "done" /\ ~result.none /\ walls = {} /\ dicts[1] = EmptyDict /\ result.cost >= 3

====
